---------------------------- MODULE Spec2Model ----------------------------
(***************************************************************************)
(* A model of the two files of packages/backend/temp-test-repos/           *)
(* concurrent-3:                                                           *)
(*   app.py   - a Flask application with the views hello ('/') and         *)
(*              get_data ('/data'), the latter relaying one outbound       *)
(*              requests.get;                                              *)
(*   utils.py - format_response and the DataProcessor wrapper.             *)
(* Spec is the web application serving NumRequests concurrent requests,    *)
(* FairSpec is Spec with the handler threads scheduled fairly, FmtSpec is  *)
(* a client of utils.py.                                                   *)
(***************************************************************************)
EXTENDS Integers, Sequences, FiniteSets, TLC

(***************************************************************************)
(* Bounds of the model.                                                    *)
(***************************************************************************)
\* Number of inbound requests the server handles concurrently.
NumRequests == 2
\* Cap on the outbound GETs counted for one request.
MaxOutbound == 2
\* Number of format_response calls a client of utils.py makes.
MaxCalls == 2
\* Number of DataProcessor objects a client of utils.py builds.
NumProcessors == 2

(***************************************************************************)
(* Python / JSON values.  Every value is a record [t, v] whose tag t names *)
(* the type: int, str, null and obj (v a record from keys to values).      *)
(***************************************************************************)
JInt(i) == [t |-> "int", v |-> i]
JStr(s) == [t |-> "str", v |-> s]
JNull == [t |-> "null", v |-> "null"]
JObj(r) == [t |-> "obj", v |-> r]
\* The value of a local variable that has not been assigned.
Unset == [t |-> "unset", v |-> "unset"]

(***************************************************************************)
(* utils.py                                                                *)
(***************************************************************************)
\* A variant that leaves an envelope as it is instead of wrapping it again.
format_response_flat(data) ==
    IF data.t = "obj" /\ DOMAIN data.v = {"status", "data", "timestamp"}
    THEN data
    ELSE JObj([status |-> JStr("success"), data |-> data,
               timestamp |-> JStr("2024-01-01T00:00:00Z")])

\* A variant that forgets the timestamp key.
format_response_no_timestamp(data) ==
    JObj([status |-> JStr("success"), data |-> data])

format_response(data) ==
    JObj([status |-> JStr("success"), data |-> data,
          timestamp |-> JStr("2024-01-01T00:00:00Z")])

\* DataProcessor.__init__: the object holds the configuration.
DataProcessor(config) == [built |-> TRUE, config |-> config]

\* A variant of process that formats the stored configuration.
process_config(self, data) ==
    [ret |-> format_response(self.config), self |-> self]

\* DataProcessor.process: the returned value and the object afterwards.
process(self, data) == [ret |-> format_response(data), self |-> self]

(***************************************************************************)
(* app.py: the values the views work on.                                   *)
(***************************************************************************)
Requests == 1..NumRequests

\* The routing table built by the two app.route decorators.
Routes == {"/", "/data"}

\* Inbound requests: a path and a query string.  app.py does not import
\* flask.request, so no view can read the query string; it is varied on
\* '/' only.
Inbound == {[path |-> "/", query |-> ""], [path |-> "/", query |-> "name=x"],
            [path |-> "/data", query |-> ""]}

\* The fixed upstream URL of get_data.
URL == "https://api.example.com/data"

\* Documents an upstream body may hold.
Docs == {JObj([foo |-> JInt(1)])}

\* Upstream bodies: JSON text of a document, or text that is not JSON.
Bodies == {[parseable |-> TRUE, doc |-> d] : d \in Docs}
             \cup {[parseable |-> FALSE, doc |-> Unset]}

\* Final status codes the upstream may answer with: two of 2xx, a 3xx that
\* requests does not follow as a redirect, a 4xx and a 5xx.
Statuses == {200, 201, 300, 404, 503}

\* Exceptions; args are the constructor's positional arguments.
NoExc == [type |-> "none", args |-> <<>>]
ConnectionErrors == {[type |-> "ConnectionError", args |-> a] :
                        a \in {<<>>, <<"Connection refused">>}}

\* What one outbound GET may end in.
NoOutcome == [kind |-> "none", status |-> 0,
              body |-> [parseable |-> FALSE, doc |-> Unset], exc |-> NoExc]
Responses == {[kind |-> "response", status |-> s, body |-> b, exc |-> NoExc] :
                 s \in Statuses, b \in Bodies}
Failures == {[kind |-> "exception", status |-> 0,
              body |-> [parseable |-> FALSE, doc |-> Unset], exc |-> x] :
                 x \in ConnectionErrors}

\* A variant of str that never returns the empty string.
str_or_class_name(x) == IF Len(x.args) = 0 THEN x.type ELSE x.args[1]

\* str(e) of an exception: BaseException.__str__ on its args.
str(x) == IF Len(x.args) = 0 THEN "" ELSE x.args[1]

\* flask.jsonify: a 200 response whose body is the serialized value.
jsonify(value) == [status |-> 200, body |-> value]

\* A view returning (response, status): the response with that status.
with_status(resp, code) == [resp EXCEPT !.status = code]

\* The reply slot of a request that has not been answered.
NoReply == [status |-> 0, body |-> Unset]


\* Reason phrases of the statuses raise_for_status reports.
reason(status) == IF status = 404 THEN "Not Found" ELSE "Service Unavailable"

\* Response.raise_for_status: the HTTPError raised, NoExc when none is.
raise_for_status(resp) ==
    IF 400 <= resp.status /\ resp.status < 500
    THEN [type |-> "HTTPError",
          args |-> <<ToString(resp.status) \o " Client Error: "
                        \o reason(resp.status) \o " for url: " \o URL>>]
    ELSE IF 500 <= resp.status /\ resp.status < 600
    THEN [type |-> "HTTPError",
          args |-> <<ToString(resp.status) \o " Server Error: "
                        \o reason(resp.status) \o " for url: " \o URL>>]
    ELSE NoExc

\* The error Response.json raises on a body that is not JSON.
JSONDecodeError ==
    [type |-> "JSONDecodeError",
     args |-> <<"Expecting value: line 1 column 1 (char 0)">>]

(***************************************************************************)
(* app.py: the state of the server.                                        *)
(***************************************************************************)
VARIABLES
    \* Whether the installed requests raises a plain ValueError from
    \* Response.json (requests < 2.27) instead of a JSONDecodeError derived
    \* from RequestException.
    jsonErrorIsValueError,
    \* request[r]: the path and query string of inbound request r.
    request,
    \* pc[r]: where the handler of request r stands.
    pc,
    \* upstream[r]: how the outbound GET issued for request r ended.
    upstream,
    \* response[r]: get_data's local variable response.
    response,
    \* e[r]: the exception get_data's except clause has caught.
    e,
    \* reply[r]: the HTTP response sent for request r.
    reply,
    \* outbound[r]: the outbound GETs issued for request r.
    outbound,
    \* replies[r]: the HTTP responses sent for request r.
    replies,
    \* calls: the format_response calls made, oldest first.
    calls,
    \* processors[p]: DataProcessor object p.
    processors,
    \* processed[p]: the argument and result of p's latest process call.
    processed

appvars == <<jsonErrorIsValueError, request, pc, upstream, response, e,
             reply, outbound, replies>>
fmtvars == <<calls, processors, processed>>
vars == <<jsonErrorIsValueError, request, pc, upstream, response, e,
          reply, outbound, replies, calls, processors, processed>>

NoRequest == [path |-> "", query |-> ""]
NoProcessor == [built |-> FALSE, config |-> Unset]
NoProcessed == [arg |-> Unset, ret |-> Unset]

InitApp ==
    /\ jsonErrorIsValueError \in BOOLEAN
    /\ request = [r \in Requests |-> NoRequest]
    /\ pc = [r \in Requests |-> "idle"]
    /\ upstream = [r \in Requests |-> NoOutcome]
    /\ response = [r \in Requests |-> NoOutcome]
    /\ e = [r \in Requests |-> NoExc]
    /\ reply = [r \in Requests |-> NoReply]
    /\ outbound = [r \in Requests |-> 0]
    /\ replies = [r \in Requests |-> 0]

InitFmt ==
    /\ calls = <<>>
    /\ processors = [p \in 1..NumProcessors |-> NoProcessor]
    /\ processed = [p \in 1..NumProcessors |-> NoProcessed]

Init == InitApp /\ InitFmt

\* except requests.exceptions.RequestException: whether the clause catches x.
IsRequestException(x) ==
    \/ x.type \in {"ConnectionError", "HTTPError"}
    \/ x.type = "JSONDecodeError" /\ ~jsonErrorIsValueError

\* The view hello: its return value for a request.
hello_echo(req) ==
    jsonify(JObj([message |-> JStr("Hello from Python!"),
                  query |-> JStr(req.query)]))

hello(req) == jsonify(JObj([message |-> JStr("Hello from Python!")]))

\* A variant of get_data's success return that wraps the body in the
\* envelope of utils.py.
relay_enveloped(resp) == jsonify(format_response(resp.body.doc))

\* get_data's success return: jsonify(response.json()) of a JSON body.
relay(resp) == jsonify(resp.body.doc)

\* A variant of the except clause that leaves the status at 200.
except_clause_200(x) == jsonify(JObj([error |-> JStr(str(x))]))

\* get_data's except clause: the return value for the caught exception.
except_clause(x) == with_status(jsonify(JObj([error |-> JStr(str(x))])), 500)

\* What Flask answers when a view lets an exception escape.
InternalServerError ==
    [status |-> 500, body |-> [t |-> "html", v |-> "Internal Server Error"]]

\* Flask sends the view's return value as the reply of request r.
Send(r, resp) ==
    /\ reply' = [reply EXCEPT ![r] = resp]
    /\ replies' = [replies EXCEPT ![r] = @ + 1]
    /\ pc' = [pc EXCEPT ![r] = "done"]

\* A request arrives and the routing table picks its view.
Arrive(r, req) ==
    /\ pc[r] = "idle"
    /\ req.path \in Routes
    /\ request' = [request EXCEPT ![r] = req]
    /\ pc' = [pc EXCEPT ![r] = IF req.path = "/" THEN "hello" ELSE "get_data"]
    /\ UNCHANGED <<jsonErrorIsValueError, upstream, response, e, reply,
                   outbound, replies, fmtvars>>

\* The view hello runs.
RunHello(r) ==
    /\ pc[r] = "hello"
    /\ Send(r, hello(request[r]))
    /\ UNCHANGED <<jsonErrorIsValueError, request, upstream, response, e,
                   outbound, fmtvars>>

\* get_data issues requests.get and blocks in it.
CallGet(r) ==
    /\ pc[r] = "get_data"
    /\ outbound[r] < MaxOutbound
    /\ outbound' = [outbound EXCEPT ![r] = @ + 1]
    /\ upstream' = [upstream EXCEPT ![r] = NoOutcome]
    /\ pc' = [pc EXCEPT ![r] = "requests.get"]
    /\ UNCHANGED <<jsonErrorIsValueError, request, response, e, reply,
                   replies, fmtvars>>

\* The upstream answers the GET of request r, or the connection fails.
UpstreamAnswers(r, outcome) ==
    /\ pc[r] = "requests.get"
    /\ upstream[r].kind = "none"
    /\ upstream' = [upstream EXCEPT ![r] = outcome]
    /\ UNCHANGED <<jsonErrorIsValueError, request, pc, response, e,
                   reply, outbound, replies, fmtvars>>

\* A variant of requests.get that gives up waiting (a timeout).
get_completes_on_timeout(outcome) == TRUE

\* requests.get is called without a timeout: it returns or raises only
\* once the upstream has answered or the connection has failed.
get_completes(outcome) == outcome.kind # "none"

\* A variant that keeps response in one module-level variable.
bind_response_global(r, value) == [q \in Requests |-> value]

\* response = ...: response is a local variable of the handler invocation.
bind_response(r, value) == [response EXCEPT ![r] = value]

\* requests.get returns the response or raises.
GetReturns(r) ==
    /\ pc[r] = "requests.get"
    /\ get_completes(upstream[r])
    /\ IF upstream[r].kind = "response"
       THEN /\ response' = bind_response(r, upstream[r])
            /\ pc' = [pc EXCEPT ![r] = "raise_for_status"]
            /\ UNCHANGED e
       ELSE /\ e' = [e EXCEPT ![r] = upstream[r].exc]
            /\ pc' = [pc EXCEPT ![r] = "except"]
            /\ UNCHANGED response
    /\ UNCHANGED <<jsonErrorIsValueError, request, upstream, reply,
                   outbound, replies, fmtvars>>

\* response.raise_for_status()
RaiseForStatus(r) ==
    /\ pc[r] = "raise_for_status"
    /\ LET x == raise_for_status(response[r])
       IN IF x = NoExc
          THEN pc' = [pc EXCEPT ![r] = "json"] /\ UNCHANGED e
          ELSE pc' = [pc EXCEPT ![r] = "except"] /\ e' = [e EXCEPT ![r] = x]
    /\ UNCHANGED <<jsonErrorIsValueError, request, upstream, response,
                   reply, outbound, replies, fmtvars>>

\* return jsonify(response.json())
ReturnJson(r) ==
    /\ pc[r] = "json"
    /\ IF response[r].body.parseable
       THEN /\ Send(r, relay(response[r]))
            /\ UNCHANGED e
       ELSE IF IsRequestException(JSONDecodeError)
       THEN /\ e' = [e EXCEPT ![r] = JSONDecodeError]
            /\ pc' = [pc EXCEPT ![r] = "except"]
            /\ UNCHANGED <<reply, replies>>
       ELSE /\ Send(r, InternalServerError)
            /\ UNCHANGED e
    /\ UNCHANGED <<jsonErrorIsValueError, request, upstream, response,
                   outbound, fmtvars>>

\* A variant of the except clause's step that calls the upstream again.
after_except_retry(r, resp) ==
    /\ pc' = [pc EXCEPT ![r] = "get_data"]
    /\ UNCHANGED <<reply, replies>>

\* The except clause returns: its value is the reply, nothing is retried.
after_except(r, resp) == Send(r, resp)

\* except requests.exceptions.RequestException as e: return ..., 500
Except(r) ==
    /\ pc[r] = "except"
    /\ after_except(r, except_clause(e[r]))
    /\ UNCHANGED <<jsonErrorIsValueError, request, upstream, response, e,
                   outbound, fmtvars>>

Handler(r) ==
    \/ RunHello(r)
    \/ CallGet(r)
    \/ GetReturns(r)
    \/ RaiseForStatus(r)
    \/ ReturnJson(r)
    \/ Except(r)

Next ==
    \/ \E r \in Requests, req \in Inbound : Arrive(r, req)
    \/ \E r \in Requests, outcome \in Responses \cup Failures :
          UpstreamAnswers(r, outcome)
    \/ \E r \in Requests : Handler(r)

Spec == Init /\ [][Next]_vars

\* Each handler runs on a thread of its own that the scheduler does not
\* starve; nothing obliges a client to send a request or the upstream to
\* answer one.
FairSpec == Spec /\ \A r \in Requests : WF_vars(Handler(r))

(***************************************************************************)
(* utils.py: a client calling format_response and DataProcessor.           *)
(***************************************************************************)
\* Inputs of format_response and process.
Inputs == {JInt(1), JStr("a"), JNull, JObj([foo |-> JInt(1)])}

\* Configuration values a DataProcessor is built with.
Configs == {JNull, JObj([debug |-> JStr("on")])}

\* format_response is called on an input or on the value an earlier call
\* returned.
CallFormat(x) ==
    /\ Len(calls) < MaxCalls
    /\ calls' = Append(calls, [arg |-> x, ret |-> format_response(x)])
    /\ UNCHANGED <<appvars, processors, processed>>

\* DataProcessor(config)
Construct(p, config) ==
    /\ ~processors[p].built
    /\ processors' = [processors EXCEPT ![p] = DataProcessor(config)]
    /\ UNCHANGED <<appvars, calls, processed>>

\* processors[p].process(x)
Process(p, x) ==
    /\ processors[p].built
    /\ LET out == process(processors[p], x)
       IN /\ processors' = [processors EXCEPT ![p] = out.self]
          /\ processed' = [processed EXCEPT ![p] = [arg |-> x, ret |-> out.ret]]
    /\ UNCHANGED <<appvars, calls>>

FmtNext ==
    \/ \E x \in Inputs \cup {calls[i].ret : i \in DOMAIN calls} : CallFormat(x)
    \/ \E p \in 1..NumProcessors, config \in Configs : Construct(p, config)
    \/ \E p \in 1..NumProcessors, x \in Inputs : Process(p, x)

FmtSpec == Init /\ [][FmtNext]_vars

(***************************************************************************)
(* Properties.                                                             *)
(***************************************************************************)
Done(r) == pc[r] = "done"
IsData(r) == request[r].path = "/data"
IsHello(r) == request[r].path = "/"
Answered(r) == upstream[r].kind # "none"
Is2xx(status) == 200 <= status /\ status < 300
Is4xx5xx(status) == 400 <= status /\ status < 600
ErrorBody(msg) == JObj([error |-> JStr(msg)])
Greeting == [status |-> 200,
             body |-> JObj([message |-> JStr("Hello from Python!")])]

\* The upstream outcomes of request r in which the client raises a request
\* exception: a failed connection, a 4xx or 5xx status, or a body that is
\* not JSON where the installed requests raises that as a request exception.
Raised(r) ==
    \/ upstream[r].kind = "exception"
    \/ /\ upstream[r].kind = "response"
       /\ \/ Is4xx5xx(upstream[r].status)
          \/ ~upstream[r].body.parseable /\ ~jsonErrorIsValueError

\* C1: whenever the upstream answered a /data request with a 2xx status and
\* a parseable JSON body B, the reply has status 200 and its body is B
\* itself, whatever the 2xx code was.
C1_RelaysBodyVerbatim ==
    \A r \in Requests :
        (/\ Done(r) /\ IsData(r)
         /\ upstream[r].kind = "response"
         /\ Is2xx(upstream[r].status)
         /\ upstream[r].body.parseable)
        => reply[r] = [status |-> 200, body |-> upstream[r].body.doc]

\* C1 witness: a 201 answer with a JSON body has been relayed.
C1_Witness ==
    \E r \in Requests :
        /\ Done(r) /\ IsData(r)
        /\ upstream[r].status = 201 /\ upstream[r].body.parseable
        /\ reply[r].status = 200

\* C2 as claimed: every outcome that is a network error, a status outside
\* 2xx or a raised request exception is answered with status 500 and the
\* body {"error": str(e)}, never with 200.
C2_EveryNon2xxIs500 ==
    \A r \in Requests :
        (/\ Done(r) /\ IsData(r)
         /\ \/ Raised(r)
            \/ upstream[r].kind = "response" /\ ~Is2xx(upstream[r].status))
        => /\ reply[r].status = 500
           /\ reply[r].body = ErrorBody(str(e[r]))

\* C2 as amended: every outcome in which the client raises a request
\* exception (a network error, a 4xx or 5xx status, any other request
\* exception) is answered with status 500 and the body {"error": str(e)};
\* a final 3xx status is not raised, and with a parseable JSON body it is
\* relayed with status 200.
C2_RaisedIs500 ==
    \A r \in Requests :
        (Done(r) /\ IsData(r)) =>
            /\ Raised(r) =>
                  /\ reply[r].status = 500
                  /\ e[r] # NoExc
                  /\ upstream[r].kind = "exception" => e[r] = upstream[r].exc
                  /\ reply[r].body = ErrorBody(IF Len(e[r].args) = 0 THEN ""
                                               ELSE e[r].args[1])
            /\ (/\ upstream[r].kind = "response"
                /\ ~Is2xx(upstream[r].status)
                /\ ~Is4xx5xx(upstream[r].status)
                /\ upstream[r].body.parseable)
               => reply[r] = [status |-> 200, body |-> upstream[r].body.doc]

\* C2 witness: a 404 has been answered with 500 and a 300 with 200.
C2_Witness ==
    \E r, q \in Requests :
        /\ Done(r) /\ IsData(r) /\ upstream[r].status = 404
        /\ reply[r].status = 500
        /\ Done(q) /\ IsData(q) /\ upstream[q].status = 300
        /\ reply[q].status = 200

\* C3 as claimed: whenever get_data caught a request exception, the reply
\* has status 500 and an error key whose value is a non-empty string.
C3_ErrorIsNonEmpty ==
    \A r \in Requests :
        (Done(r) /\ IsData(r) /\ e[r] # NoExc)
        => /\ reply[r].status = 500
           /\ reply[r].body.t = "obj"
           /\ "error" \in DOMAIN reply[r].body.v
           /\ reply[r].body.v.error.t = "str"
           /\ reply[r].body.v.error.v # ""

\* C3 as amended: whenever get_data caught a request exception, the reply
\* has status 500 and an error key whose value is the exception's message
\* as a string: the empty string for an exception constructed without a
\* message, the (non-empty) message otherwise.
C3_ErrorIsMessage ==
    \A r \in Requests :
        (Done(r) /\ IsData(r) /\ e[r] # NoExc)
        => /\ reply[r].status = 500
           /\ reply[r].body.t = "obj"
           /\ "error" \in DOMAIN reply[r].body.v
           /\ reply[r].body.v.error.t = "str"
           /\ Len(e[r].args) = 0 => reply[r].body.v.error.v = ""
           /\ Len(e[r].args) > 0 =>
                 /\ reply[r].body.v.error.v = e[r].args[1]
                 /\ reply[r].body.v.error.v # ""

\* C3 witness: a ConnectionError constructed without a message was caught.
C3_Witness ==
    \E r \in Requests :
        /\ Done(r) /\ IsData(r)
        /\ upstream[r].kind = "exception" /\ upstream[r].exc.args = <<>>
        /\ reply[r].status = 500

\* C4: every reply to a request for '/' has status 200 and the body
\* {"message": "Hello from Python!"}, whatever its query string and
\* whatever the other requests did.
C4_HelloIsFixed ==
    \A r \in Requests : (Done(r) /\ IsHello(r)) => reply[r] = Greeting

\* C4 witness: '/' has been answered for a request with a query string
\* while a /data request has failed.
C4_Witness ==
    \E r, q \in Requests :
        /\ Done(r) /\ IsHello(r) /\ request[r].query = "name=x"
        /\ Done(q) /\ IsData(q) /\ reply[q].status = 500

\* C5: every format_response call returns a record with exactly the keys
\* status, data and timestamp, where status is "success", data is the
\* argument and timestamp is "2024-01-01T00:00:00Z"; calls with equal
\* arguments return equal records.
C5_Envelope ==
    \A i \in DOMAIN calls :
        /\ calls[i].ret.t = "obj"
        /\ DOMAIN calls[i].ret.v = {"status", "data", "timestamp"}
        /\ calls[i].ret.v.status = JStr("success")
        /\ calls[i].ret.v.data = calls[i].arg
        /\ calls[i].ret.v.timestamp = JStr("2024-01-01T00:00:00Z")
        /\ \A j \in DOMAIN calls :
              calls[j].arg = calls[i].arg => calls[j].ret = calls[i].ret

\* C5 witness: format_response has been called twice on the same object.
C5_Witness ==
    /\ Len(calls) >= 2
    /\ calls[1].arg = JObj([foo |-> JInt(1)])
    /\ calls[2].arg = calls[1].arg

\* Whether processor p has returned from a process call.
HasProcessed(p) == processed[p].ret # Unset

\* C6: process returns the envelope of its argument whatever the stored
\* configuration is, processors with different configurations return
\* equal results for equal arguments, and no step changes the
\* configuration of a processor once built.
C6_ProcessIsFormatResponse ==
    /\ [](\A p \in 1..NumProcessors :
            HasProcessed(p) =>
               /\ processed[p].ret =
                     JObj([status |-> JStr("success"),
                           data |-> processed[p].arg,
                           timestamp |-> JStr("2024-01-01T00:00:00Z")])
               /\ \A q \in 1..NumProcessors :
                     (HasProcessed(q) /\ processed[q].arg = processed[p].arg)
                     => processed[q].ret = processed[p].ret)
    /\ [][\A p \in 1..NumProcessors :
             processors[p].built => processors'[p] = processors[p]]_vars

\* C6 witness: two processors with different configurations have processed
\* the same argument.
C6_Witness ==
    \E p, q \in 1..NumProcessors :
        /\ processors[p].built /\ processors[q].built
        /\ processors[p].config # processors[q].config
        /\ HasProcessed(p) /\ HasProcessed(q)
        /\ processed[p].arg = processed[q].arg

\* C7: the reply of a request depends on nothing but its own path and the
\* outcome of its own upstream call: '/' gets the greeting, a 200 from
\* /data carries the body of the request's own upstream answer, an error
\* reply carries the message of the request's own exception, and two
\* requests with the same path and the same upstream outcome get the same
\* reply.
C7_NoInterference ==
    \A r \in Requests :
        Done(r) =>
            /\ IsHello(r) => reply[r] = Greeting
            /\ (IsData(r) /\ reply[r].status = 200) =>
                  /\ upstream[r].kind = "response"
                  /\ upstream[r].body.parseable
                  /\ reply[r].body = upstream[r].body.doc
            /\ (IsData(r) /\ upstream[r].kind = "exception") =>
                  reply[r] = [status |-> 500,
                              body |-> ErrorBody(IF Len(upstream[r].exc.args) = 0
                                                 THEN ""
                                                 ELSE upstream[r].exc.args[1])]
            /\ IsData(r) => response[r] \in {NoOutcome, upstream[r]}
            /\ \A q \in Requests :
                  (/\ Done(q)
                   /\ request[q].path = request[r].path
                   /\ upstream[q] = upstream[r])
                  => reply[q] = reply[r]

\* C7 witness: two /data requests whose upstream calls ended differently,
\* one with a JSON body and one with a failed connection, have both been
\* answered.
C7_Witness ==
    \E r, q \in Requests :
        /\ Done(r) /\ IsData(r) /\ Done(q) /\ IsData(q)
        /\ upstream[r].kind = "response" /\ upstream[q].kind = "exception"
        /\ reply[r].status = 200 /\ reply[q].status = 500

\* C8: a request issues at most one outbound GET and gets at most one
\* reply, an answered /data request has issued exactly one GET and got
\* exactly one reply, and once a request is answered nothing more happens
\* for it: no further GET, no change of the reply.
C8_OneGetOneReply ==
    /\ [](\A r \in Requests :
            /\ outbound[r] <= 1
            /\ replies[r] <= 1
            /\ IsHello(r) => outbound[r] = 0
            /\ (Done(r) /\ IsData(r)) => (outbound[r] = 1 /\ replies[r] = 1))
    /\ [][\A r \in Requests :
             Done(r) => /\ pc'[r] = "done"
                        /\ reply'[r] = reply[r]
                        /\ outbound'[r] = outbound[r]
                        /\ replies'[r] = replies[r]]_vars

\* C8 witness: a /data request whose upstream call failed has been
\* answered with 500 after one outbound GET.
C8_Witness ==
    \E r \in Requests :
        /\ Done(r) /\ IsData(r) /\ e[r] # NoExc
        /\ reply[r].status = 500 /\ outbound[r] = 1

\* C10: a /data request is answered only after its upstream call has
\* completed, its handler stays in requests.get for as long as the
\* upstream has not answered, every reply is a 200 or a 500, and every
\* /data request whose upstream call has completed is eventually answered.
C10_RepliesIffUpstreamCompletes ==
    /\ [](\A r \in Requests :
            (Done(r) /\ IsData(r)) =>
               (Answered(r) /\ reply[r].status \in {200, 500}))
    /\ [][\A r \in Requests :
             (pc[r] = "requests.get" /\ ~Answered(r) /\ upstream'[r].kind = "none")
             => pc'[r] = "requests.get"]_vars
    /\ \A r \in Requests : (IsData(r) /\ Answered(r)) ~> Done(r)

\* C10 witness: one /data request has been answered while another is
\* still blocked on an upstream that has not answered.
C10_Witness ==
    \E r, q \in Requests :
        /\ Done(r) /\ IsData(r) /\ reply[r].status \in {200, 500}
        /\ pc[q] = "requests.get" /\ ~Answered(q)

\* C9 as claimed: applying format_response to a value it returned gives
\* that value again.
C9_Idempotent ==
    \A i, j \in DOMAIN calls :
        (j < i /\ calls[i].arg = calls[j].ret) => calls[i].ret = calls[i].arg

\* C9 as amended: applying format_response to a value it returned wraps it
\* once more: the result is the envelope whose data is that value, and it
\* differs from that value.
C9_WrapsAgain ==
    \A i, j \in DOMAIN calls :
        (j < i /\ calls[i].arg = calls[j].ret) =>
            /\ calls[i].ret # calls[i].arg
            /\ calls[i].ret.v.data = calls[i].arg
            /\ calls[i].ret.v.data.v.data = calls[j].arg

\* C9 witness: format_response has been applied to its own result.
C9_Witness ==
    /\ Len(calls) >= 2
    /\ calls[2].arg = calls[1].ret

=============================================================================
